---- MODULE Spec2Model ----
(***************************************************************************)
(* Model of test-binary-server.py: BinaryTestHandler (do_GET, log_message) *)
(* run by http.server.HTTPServer.serve_forever, a sequential accept loop.  *)
(* The handler's statements are modelled one action per call; the library  *)
(* calls it makes (send_response, send_header, end_headers, wfile.write)   *)
(* and the serve loop around it follow CPython's http.server/socketserver. *)
(***************************************************************************)
EXTENDS Integers, Sequences, FiniteSets, TLC

\* ------------------------------------------------------------ bounds
\* Client connections that may be opened during a run.
NumConns == 2
\* Requests one client may send on a single connection.
MaxReqs == 2

Conns == 1..NumConns

\* ------------------------------------------------------------ payloads
\* The literal byte buffers of do_GET, byte for byte.
png_data ==
   <<
      137, 80, 78, 71, 13, 10, 26, 10, 0, 0, 0, 13, 73, 72, 68, 82,
      0, 0, 0, 1, 0, 0, 0, 1, 8, 2, 0, 0, 0, 144, 119, 83,
      222, 0, 0, 0, 12, 73, 68, 65, 84, 8, 215, 99, 248, 207, 192, 0,
      0, 3, 1, 1, 0, 24, 221, 141, 180, 0, 0, 0, 0, 73, 69, 78,
      68, 174, 66, 96, 130
   >>

jpeg_data ==
   <<
      255, 216, 255, 224, 0, 16, 74, 70, 73, 70, 0, 1, 1, 0, 0, 1,
      0, 1, 0, 0, 255, 219, 0, 67, 0, 8, 6, 6, 7, 6, 5, 8,
      7, 7, 7, 9, 9, 8, 10, 12, 20, 13, 12, 11, 11, 12, 25, 18,
      19, 15, 20, 29, 26, 31, 30, 29, 26, 28, 28, 32, 36, 46, 39, 32,
      34, 44, 35, 28, 28, 40, 55, 41, 44, 48, 49, 52, 52, 52, 31, 39,
      57, 61, 56, 50, 60, 46, 51, 52, 50, 255, 192, 0, 11, 8, 0, 1,
      0, 1, 1, 1, 17, 0, 255, 196, 0, 20, 0, 1, 0, 0, 0, 0,
      0, 0, 0, 0, 0, 0, 0, 0, 0, 0, 0, 3, 255, 196, 0, 20,
      16, 1, 0, 0, 0, 0, 0, 0, 0, 0, 0, 0, 0, 0, 0, 0,
      0, 0, 255, 218, 0, 8, 1, 1, 0, 0, 63, 0, 63, 0, 255, 217
   >>

pdf_data ==
   <<
      37, 80, 68, 70, 45, 49, 46, 52, 10, 49, 32, 48, 32, 111, 98, 106,
      60, 60, 47, 84, 121, 112, 101, 47, 67, 97, 116, 97, 108, 111, 103, 47,
      80, 97, 103, 101, 115, 32, 50, 32, 48, 32, 82, 62, 62, 101, 110, 100,
      111, 98, 106, 10, 50, 32, 48, 32, 111, 98, 106, 60, 60, 47, 84, 121,
      112, 101, 47, 80, 97, 103, 101, 115, 47, 67, 111, 117, 110, 116, 32, 49,
      47, 75, 105, 100, 115, 91, 51, 32, 48, 32, 82, 93, 62, 62, 101, 110,
      100, 111, 98, 106, 10, 51, 32, 48, 32, 111, 98, 106, 60, 60, 47, 84,
      121, 112, 101, 47, 80, 97, 103, 101, 47, 77, 101, 100, 105, 97, 66, 111,
      120, 91, 48, 32, 48, 32, 54, 49, 50, 32, 55, 57, 50, 93, 47, 80,
      97, 114, 101, 110, 116, 32, 50, 32, 48, 32, 82, 47, 82, 101, 115, 111,
      117, 114, 99, 101, 115, 60, 60, 62, 62, 62, 62, 101, 110, 100, 111, 98,
      106, 10, 120, 114, 101, 102, 10, 48, 32, 52, 10, 48, 48, 48, 48, 48,
      48, 48, 48, 48, 48, 32, 54, 53, 53, 51, 53, 32, 102, 10, 48, 48,
      48, 48, 48, 48, 48, 48, 48, 57, 32, 48, 48, 48, 48, 48, 32, 110,
      10, 48, 48, 48, 48, 48, 48, 48, 48, 53, 50, 32, 48, 48, 48, 48,
      48, 32, 110, 10, 48, 48, 48, 48, 48, 48, 48, 49, 48, 49, 32, 48,
      48, 48, 48, 48, 32, 110, 10, 116, 114, 97, 105, 108, 101, 114, 60, 60,
      47, 83, 105, 122, 101, 32, 52, 47, 82, 111, 111, 116, 32, 49, 32, 48,
      32, 82, 62, 62, 10, 115, 116, 97, 114, 116, 120, 114, 101, 102, 10, 49,
      56, 53, 10, 37, 37, 69, 79, 70
   >>

\* Variant of zip_data: the End of central directory record one byte short.
zip_data_short ==
   <<
      80, 75, 5, 6, 0, 0, 0, 0, 0, 0, 0, 0, 0, 0, 0, 0,
      0, 0, 0, 0, 0
   >>

zip_data ==
   <<
      80, 75, 5, 6, 0, 0, 0, 0, 0, 0, 0, 0, 0, 0, 0, 0,
      0, 0, 0, 0, 0, 0
   >>

html ==
   <<
      60, 33, 68, 79, 67, 84, 89, 80, 69, 32, 104, 116, 109, 108, 62, 10,
      60, 104, 116, 109, 108, 62, 10, 60, 104, 101, 97, 100, 62, 60, 116, 105,
      116, 108, 101, 62, 66, 105, 110, 97, 114, 121, 32, 84, 101, 115, 116, 32,
      83, 101, 114, 118, 101, 114, 60, 47, 116, 105, 116, 108, 101, 62, 60, 47,
      104, 101, 97, 100, 62, 10, 60, 98, 111, 100, 121, 62, 10, 32, 32, 32,
      32, 60, 104, 49, 62, 66, 105, 110, 97, 114, 121, 32, 67, 111, 110, 116,
      101, 110, 116, 32, 84, 101, 115, 116, 32, 83, 101, 114, 118, 101, 114, 60,
      47, 104, 49, 62, 10, 32, 32, 32, 32, 60, 112, 62, 84, 101, 115, 116,
      32, 116, 104, 101, 32, 102, 111, 108, 108, 111, 119, 105, 110, 103, 32, 98,
      105, 110, 97, 114, 121, 32, 101, 110, 100, 112, 111, 105, 110, 116, 115, 58,
      60, 47, 112, 62, 10, 32, 32, 32, 32, 60, 117, 108, 62, 10, 32, 32,
      32, 32, 32, 32, 32, 32, 60, 108, 105, 62, 60, 97, 32, 104, 114, 101,
      102, 61, 34, 47, 105, 109, 97, 103, 101, 46, 112, 110, 103, 34, 62, 80,
      78, 71, 32, 73, 109, 97, 103, 101, 60, 47, 97, 62, 32, 40, 105, 109,
      97, 103, 101, 47, 112, 110, 103, 41, 60, 47, 108, 105, 62, 10, 32, 32,
      32, 32, 32, 32, 32, 32, 60, 108, 105, 62, 60, 97, 32, 104, 114, 101,
      102, 61, 34, 47, 105, 109, 97, 103, 101, 46, 106, 112, 103, 34, 62, 74,
      80, 69, 71, 32, 73, 109, 97, 103, 101, 60, 47, 97, 62, 32, 40, 105,
      109, 97, 103, 101, 47, 106, 112, 101, 103, 41, 60, 47, 108, 105, 62, 10,
      32, 32, 32, 32, 32, 32, 32, 32, 60, 108, 105, 62, 60, 97, 32, 104,
      114, 101, 102, 61, 34, 47, 100, 111, 99, 117, 109, 101, 110, 116, 46, 112,
      100, 102, 34, 62, 80, 68, 70, 32, 68, 111, 99, 117, 109, 101, 110, 116,
      60, 47, 97, 62, 32, 40, 97, 112, 112, 108, 105, 99, 97, 116, 105, 111,
      110, 47, 112, 100, 102, 41, 60, 47, 108, 105, 62, 10, 32, 32, 32, 32,
      32, 32, 32, 32, 60, 108, 105, 62, 60, 97, 32, 104, 114, 101, 102, 61,
      34, 47, 97, 114, 99, 104, 105, 118, 101, 46, 122, 105, 112, 34, 62, 90,
      73, 80, 32, 65, 114, 99, 104, 105, 118, 101, 60, 47, 97, 62, 32, 40,
      97, 112, 112, 108, 105, 99, 97, 116, 105, 111, 110, 47, 122, 105, 112, 41,
      60, 47, 108, 105, 62, 10, 32, 32, 32, 32, 60, 47, 117, 108, 62, 10,
      32, 32, 32, 32, 60, 112, 62, 69, 97, 99, 104, 32, 101, 110, 100, 112,
      111, 105, 110, 116, 32, 119, 105, 108, 108, 32, 114, 101, 116, 117, 114, 110,
      32, 97, 32, 109, 105, 110, 105, 109, 97, 108, 32, 118, 97, 108, 105, 100,
      32, 98, 105, 110, 97, 114, 121, 32, 102, 105, 108, 101, 32, 111, 102, 32,
      116, 104, 97, 116, 32, 116, 121, 112, 101, 46, 60, 47, 112, 62, 10, 60,
      47, 98, 111, 100, 121, 62, 10, 60, 47, 104, 116, 109, 108, 62
   >>

not_found_body ==
   <<
      52, 48, 52, 32, 78, 111, 116, 32, 70, 111, 117, 110, 100
   >>

\* ------------------------------------------------------------ constants
\* port = 8000
port == 8000

\* BinaryTestHandler does not set protocol_version: BaseHTTPRequestHandler's
\* default applies.
\* Variant of protocol_version: a handler that declares HTTP/1.1.
protocol_version_11 == "HTTP/1.1"

protocol_version == "HTTP/1.0"

\* version_string() and date_time_string() of the library: the Server and Date
\* header values send_response adds.  The clock is not modelled: one value.
version_string == "BaseHTTP Python"
date_time_string == "Wed, 04 Nov 2026 12:00:00 GMT"

\* self.log_date_time_string(): the timestamp of a log line (one clock value).
log_date_time_string == "04/Nov/2026 12:00:00"

\* ------------------------------------------------------------ conversions
Digits == <<"0", "1", "2", "3", "4", "5", "6", "7", "8", "9">>

\* Variant of str: the digits come out least significant first.
RECURSIVE str_lsd_first(_)
str_lsd_first(n) ==
   IF n < 10 THEN Digits[n + 1] ELSE Digits[(n % 10) + 1] \o str_lsd_first(n \div 10)

\* str(n) of a non-negative int: its decimal digits, most significant first.
RECURSIVE str(_)
str(n) == IF n < 10 THEN Digits[n + 1] ELSE str(n \div 10) \o Digits[(n % 10) + 1]

\* ------------------------------------------------------------ requests
\* The request paths of the byte-level specification SpecGet: the five routes
\* and unmapped paths, among them mapped paths with a query string, a trailing
\* slash, other letter case, and a missing leading slash.
AllPaths ==
   {"/", "/image.png", "/image.jpg", "/document.pdf", "/archive.zip",
    "/nonexistent", "/image.png?x=1", "/archive.zip/", "/IMAGE.PNG",
    "/index.html", "image.png"}

\* The request paths of the server-level specification Spec; its clients ask
\* for keep-alive over HTTP/1.1.
ServedPaths == {"/image.png", "/archive.zip", "/nonexistent"}

\* A GET request as the client sends it: request line and Connection header.
Request(p, v, k) == [path |-> p, version |-> v, conntype |-> k]

AllRequests ==
   {Request(p, v, k) : p \in AllPaths, v \in {"HTTP/1.0", "HTTP/1.1"},
                       k \in {"", "keep-alive", "close"}}

ServedRequests == {Request(p, "HTTP/1.1", "keep-alive") : p \in ServedPaths}

RequestLine(r) == "GET " \o r.path \o " " \o r.version

\* ------------------------------------------------------------ do_GET
\* The calls a branch of do_GET makes, in order.
Call(op, code, k, v, data) ==
   [op |-> op, code |-> code, k |-> k, v |-> v, data |-> data]

send_response(code) == Call("send_response", code, "", "", <<>>)

send_header(keyword, value) == Call("send_header", 0, keyword, value, <<>>)

end_headers == Call("end_headers", 0, "", "", <<>>)

wfile_write(data) == Call("write", 0, "", "", data)

\* Variant of PathIs: the route is matched as a prefix of the path.
PathStartsWith(self_path, route) ==
   /\ Len(self_path) >= Len(route)
   /\ SubSeq(self_path, 1, Len(route)) = route

\* self.path == route: Python string equality.
PathIs(self_path, route) == self_path = route

do_GET(self_path) ==
   IF PathIs(self_path, "/image.png") THEN
      << send_response(200),
         send_header("Content-Type", "image/png"),
         send_header("Content-Length", str(Len(png_data))),
         end_headers,
         wfile_write(png_data) >>
   ELSE IF PathIs(self_path, "/image.jpg") THEN
      << send_response(200),
         send_header("Content-Type", "image/jpeg"),
         send_header("Content-Length", str(Len(jpeg_data))),
         end_headers,
         wfile_write(jpeg_data) >>
   ELSE IF PathIs(self_path, "/document.pdf") THEN
      << send_response(200),
         send_header("Content-Type", "application/pdf"),
         send_header("Content-Length", str(Len(pdf_data))),
         end_headers,
         wfile_write(pdf_data) >>
   ELSE IF PathIs(self_path, "/archive.zip") THEN
      << send_response(200),
         send_header("Content-Type", "application/zip"),
         send_header("Content-Length", str(Len(zip_data))),
         end_headers,
         wfile_write(zip_data) >>
   ELSE IF PathIs(self_path, "/") THEN
      << send_response(200),
         send_header("Content-Type", "text/html; charset=utf-8"),
         send_header("Content-Length", str(Len(html))),
         end_headers,
         wfile_write(html) >>
   ELSE
      << send_response(404),
         send_header("Content-Type", "text/plain"),
         end_headers,
         wfile_write(not_found_body) >>

\* ------------------------------------------------------------ state
VARIABLES
   client,            \* client[c]: "idle", "open" or "gone" (peer closed)
   asked,             \* asked[c]: the requests client c has sent, in order
   rfile,             \* rfile[c]: those the server has not read
   sock,              \* sock[c]: the server's side of connection c
   backlog,           \* connections waiting in the listen queue, oldest first
   wire,              \* wire[c]: what the server has written to connection c
   srv,               \* where the main program is
   is_shut_down,      \* the server's __is_shut_down event
   shutdown_request,  \* the server's __shutdown_request flag
   cur,               \* the connection the handler serves (0: none)
   hpc,               \* where the handler is
   path,              \* self.path
   requestline,       \* self.requestline
   close_connection,  \* self.close_connection
   hbuf,              \* self._headers_buffer
   prog,              \* the calls of do_GET still to make
   stdout,            \* the lines printed to standard output
   handled,           \* do_GET calls that have ended (returned or raised)
   errors             \* handle_error calls (tracebacks on standard error)

vars ==
   << client, asked, rfile, sock, backlog, wire, srv, is_shut_down,
      shutdown_request, cur, hpc, path, requestline, close_connection, hbuf,
      prog, stdout, handled, errors >>

clientVars == << client, asked, rfile >>

handlerVars == << cur, hpc, path, requestline, close_connection, hbuf, prog >>

mainVars == << srv, is_shut_down, shutdown_request >>

\* The lines __main__ prints before serve_forever().
Banner ==
   << "Binary test server running on http://localhost:" \o str(port),
      "Available endpoints:",
      "  http://localhost:" \o str(port) \o "/         - Index page",
      "  http://localhost:" \o str(port) \o "/image.png - PNG image",
      "  http://localhost:" \o str(port) \o "/image.jpg - JPEG image",
      "  http://localhost:" \o str(port) \o "/document.pdf - PDF document",
      "  http://localhost:" \o str(port) \o "/archive.zip - ZIP archive",
      "\nPress Ctrl+C to stop" >>

\* The state on entering server.serve_forever(): the server is bound and
\* listening, the banner is printed, no client has connected.
Init ==
   /\ client = [c \in Conns |-> "idle"]
   /\ asked = [c \in Conns |-> <<>>]
   /\ rfile = [c \in Conns |-> <<>>]
   /\ sock = [c \in Conns |-> "unconnected"]
   /\ backlog = <<>>
   /\ wire = [c \in Conns |-> <<>>]
   /\ srv = "serve_forever"
   /\ is_shut_down = FALSE
   /\ shutdown_request = FALSE
   /\ cur = 0
   /\ hpc = "none"
   /\ path = ""
   /\ requestline = ""
   /\ close_connection = TRUE
   /\ hbuf = <<>>
   /\ prog = <<>>
   /\ stdout = Banner
   /\ handled = 0
   /\ errors = 0

\* ------------------------------------------------------------ clients
\* A client opens a TCP connection: it waits in the listen queue.
Connect(c) ==
   /\ client[c] = "idle"
   /\ srv # "exit"
   /\ client' = [client EXCEPT ![c] = "open"]
   /\ sock' = [sock EXCEPT ![c] = "queued"]
   /\ backlog' = Append(backlog, c)
   /\ UNCHANGED << asked, rfile, wire, mainVars, handlerVars, stdout, handled, errors >>

\* A client sends a GET request on its open connection.
Send(c, r) ==
   /\ client[c] = "open"
   /\ sock[c] \in {"queued", "accepted"}
   /\ Len(asked[c]) < MaxReqs
   /\ asked' = [asked EXCEPT ![c] = Append(@, r)]
   /\ rfile' = [rfile EXCEPT ![c] = Append(@, r)]
   /\ UNCHANGED << client, sock, backlog, wire, mainVars, handlerVars, stdout,
                   handled, errors >>

\* A client closes its end of a connection the server has not closed yet.
Disconnect(c) ==
   /\ client[c] = "open"
   /\ sock[c] \in {"queued", "accepted"}
   /\ client' = [client EXCEPT ![c] = "gone"]
   /\ UNCHANGED << asked, rfile, sock, backlog, wire, mainVars, handlerVars,
                   stdout, handled, errors >>

\* ------------------------------------------------------------ library steps
\* parse_request(): close_connection starts True; an HTTP/1.1 request or a
\* "Connection: keep-alive" header clears it only if the handler's
\* protocol_version is HTTP/1.1; "Connection: close" sets it.
parse_close_connection(version, conntype) ==
   LET byVersion == ~(version = "HTTP/1.1" /\ protocol_version = "HTTP/1.1")
   IN  IF conntype = "close" THEN TRUE
       ELSE IF conntype = "keep-alive" /\ protocol_version = "HTTP/1.1" THEN FALSE
       ELSE byVersion

\* A line of the headers buffer: the status line, a header, or the blank line.
StatusLine(code) ==
   [kind |-> "status", k |-> protocol_version, v |-> "", code |-> code]

Header(keyword, value) ==
   [kind |-> "header", k |-> keyword, v |-> value, code |-> 0]

BlankLine == [kind |-> "blank", k |-> "", v |-> "", code |-> 0]

\* One wfile.write on the socket of connection c: the flushed header lines, or
\* body bytes.
Chunk(lines, data) == [lines |-> lines, data |-> data]

\* The bytes of a sequence of writes, joined.
RECURSIVE Bytes(_)
Bytes(w) == IF w = <<>> THEN <<>> ELSE Head(w).data \o Bytes(Tail(w))

\* Variant of Deliver: the write goes to the newest connection of the listen
\* queue when there is one, as with a socket kept in a server-wide field.
Deliver_to_newest(c, chunk) ==
   IF backlog # <<>>
   THEN [wire EXCEPT ![backlog[Len(backlog)]] = Append(@, chunk)]
   ELSE [wire EXCEPT ![c] = Append(@, chunk)]

Deliver(c, chunk) == [wire EXCEPT ![c] = Append(@, chunk)]

\* Variant of log_message: an override that prints nothing.
log_message_quiet(message) == stdout

\* log_message(format, *args): print "[<timestamp>] <format % args>".
log_message(message) ==
   Append(stdout, "[" \o log_date_time_string \o "] " \o message)

\* log_request(code), called by send_response: '"%s" %s %s' of the request
\* line, the code and the size "-".
log_request(code) ==
   log_message("\"" \o requestline \o "\" " \o str(code) \o " -")

\* shutdown_request(request): the server closes its socket of connection c.
\* "how" records what led to it: the handler returned ("closed_ok"), the peer
\* sent nothing ("closed_eof"), a write raised ("closed_err"), or Ctrl+C
\* ("closed_int").
CloseSocket(c, how) == sock' = [sock EXCEPT ![c] = how]

\* The handler object is dropped: its fields no longer exist.
HandlerGone ==
   /\ cur' = 0
   /\ hpc' = "none"
   /\ path' = ""
   /\ requestline' = ""
   /\ close_connection' = TRUE
   /\ hbuf' = <<>>
   /\ prog' = <<>>

\* serve_forever(): a connection is ready; get_request() accepts the oldest,
\* process_request() builds the handler, handle() sets close_connection and
\* handle_one_request() blocks reading the request line.
Accept ==
   /\ srv = "serve_forever"
   /\ ~shutdown_request
   /\ backlog # <<>>
   /\ sock' = [sock EXCEPT ![Head(backlog)] = "accepted"]
   /\ cur' = Head(backlog)
   /\ backlog' = Tail(backlog)
   /\ srv' = "handle"
   /\ hpc' = "readline"
   /\ close_connection' = TRUE
   /\ UNCHANGED << clientVars, wire, is_shut_down, shutdown_request, path,
                   requestline, hbuf, prog, stdout, handled, errors >>

\* handle_one_request(): the request line and headers are read and parsed.
ParseRequest ==
   /\ srv = "handle"
   /\ hpc = "readline"
   /\ rfile[cur] # <<>>
   /\ rfile' = [rfile EXCEPT ![cur] = Tail(@)]
   /\ requestline' = RequestLine(Head(rfile[cur]))
   /\ path' = Head(rfile[cur]).path
   /\ close_connection' =
         parse_close_connection(Head(rfile[cur]).version, Head(rfile[cur]).conntype)
   /\ hpc' = "parsed"
   /\ UNCHANGED << client, asked, sock, backlog, wire, mainVars, cur, hbuf, prog,
                   stdout, handled, errors >>

\* handle_one_request(): readline returns nothing, the peer has closed; the
\* handler returns and shutdown_request() closes the connection.
EndOfFile ==
   /\ srv = "handle"
   /\ hpc = "readline"
   /\ rfile[cur] = <<>>
   /\ client[cur] = "gone"
   /\ CloseSocket(cur, "closed_eof")
   /\ srv' = "serve_forever"
   /\ HandlerGone
   /\ UNCHANGED << clientVars, backlog, wire, is_shut_down, shutdown_request,
                   stdout, handled, errors >>

\* handle_one_request(): method = getattr(self, "do_GET"); method().
Dispatch ==
   /\ srv = "handle"
   /\ hpc = "parsed"
   /\ prog' = do_GET(path)
   /\ hpc' = "do_GET"
   /\ UNCHANGED << clientVars, sock, backlog, wire, mainVars, cur, path,
                   requestline, close_connection, hbuf, stdout, handled, errors >>

\* self.send_response(code): log_request(code), then the status line and the
\* Server and Date headers go to the headers buffer.
SendResponse ==
   /\ srv = "handle"
   /\ hpc = "do_GET"
   /\ prog # <<>>
   /\ Head(prog).op = "send_response"
   /\ stdout' = log_request(Head(prog).code)
   /\ hbuf' = hbuf \o << StatusLine(Head(prog).code),
                         Header("Server", version_string),
                         Header("Date", date_time_string) >>
   /\ prog' = Tail(prog)
   /\ UNCHANGED << clientVars, sock, backlog, wire, mainVars, cur, hpc, path,
                   requestline, close_connection, handled, errors >>

\* self.send_header(keyword, value): one more line in the headers buffer.
SendHeader ==
   /\ srv = "handle"
   /\ hpc = "do_GET"
   /\ prog # <<>>
   /\ Head(prog).op = "send_header"
   /\ hbuf' = Append(hbuf, Header(Head(prog).k, Head(prog).v))
   /\ prog' = Tail(prog)
   /\ UNCHANGED << clientVars, sock, backlog, wire, mainVars, cur, hpc, path,
                   requestline, close_connection, stdout, handled, errors >>

\* Variant of EndHeaders: the blank line is buffered and nothing is flushed.
EndHeaders_noflush ==
   /\ srv = "handle"
   /\ hpc = "do_GET"
   /\ prog # <<>>
   /\ Head(prog).op = "end_headers"
   /\ hbuf' = Append(hbuf, BlankLine)
   /\ prog' = Tail(prog)
   /\ UNCHANGED << clientVars, sock, backlog, wire, mainVars, cur, hpc, path,
                   requestline, close_connection, stdout, handled, errors >>

\* self.end_headers(): the blank line is added and flush_headers() writes the
\* buffer to the socket in one write and empties it.
EndHeaders ==
   /\ srv = "handle"
   /\ hpc = "do_GET"
   /\ prog # <<>>
   /\ Head(prog).op = "end_headers"
   /\ wire' = Deliver(cur, Chunk(Append(hbuf, BlankLine), <<>>))
   /\ hbuf' = <<>>
   /\ prog' = Tail(prog)
   /\ UNCHANGED << clientVars, sock, backlog, mainVars, cur, hpc, path,
                   requestline, close_connection, stdout, handled, errors >>

\* The body bytes written so far to the connections other than c.
RECURSIVE BytesElsewhere(_, _)
BytesElsewhere(c, n) ==
   IF n = 0 THEN <<>>
   ELSE BytesElsewhere(c, n - 1) \o (IF n = c THEN <<>> ELSE Bytes(wire[n]))

\* Variant of WfileWrite: the body is collected in one buffer shared by all
\* requests and never emptied, and the buffer is what gets written.
WfileWrite_shared_buffer ==
   /\ srv = "handle"
   /\ hpc = "do_GET"
   /\ prog # <<>>
   /\ Head(prog).op = "write"
   /\ wire' = Deliver(cur, Chunk(<<>>, BytesElsewhere(cur, NumConns) \o Head(prog).data))
   /\ prog' = Tail(prog)
   /\ UNCHANGED << clientVars, sock, backlog, mainVars, cur, hpc, path,
                   requestline, close_connection, hbuf, stdout, handled, errors >>

\* self.wfile.write(data): wfile is unbuffered, the bytes go to the socket.
WfileWrite ==
   /\ srv = "handle"
   /\ hpc = "do_GET"
   /\ prog # <<>>
   /\ Head(prog).op = "write"
   /\ wire' = Deliver(cur, Chunk(<<>>, Head(prog).data))
   /\ prog' = Tail(prog)
   /\ UNCHANGED << clientVars, sock, backlog, mainVars, cur, hpc, path,
                   requestline, close_connection, hbuf, stdout, handled, errors >>

\* Variant of WriteRaises: the exception is not absorbed per connection; it
\* leaves serve_forever and ends the process.
WriteRaises_fatal ==
   /\ srv = "handle"
   /\ hpc = "do_GET"
   /\ prog # <<>>
   /\ Head(prog).op \in {"end_headers", "write"}
   /\ client[cur] = "gone"
   /\ errors' = errors + 1
   /\ handled' = handled + 1
   /\ CloseSocket(cur, "closed_err")
   /\ srv' = "exit"
   /\ is_shut_down' = TRUE
   /\ shutdown_request' = FALSE
   /\ HandlerGone
   /\ UNCHANGED << clientVars, backlog, wire, stdout >>

\* A write to a connection whose peer has closed may raise an OSError.  do_GET
\* catches nothing: the exception leaves the handler, _handle_request_noblock
\* calls handle_error() (a traceback on standard error) and shutdown_request(),
\* and the serve loop goes on.
WriteRaises ==
   /\ srv = "handle"
   /\ hpc = "do_GET"
   /\ prog # <<>>
   /\ Head(prog).op \in {"end_headers", "write"}
   /\ client[cur] = "gone"
   /\ errors' = errors + 1
   /\ handled' = handled + 1
   /\ CloseSocket(cur, "closed_err")
   /\ srv' = "serve_forever"
   /\ HandlerGone
   /\ UNCHANGED << clientVars, backlog, wire, is_shut_down, shutdown_request, stdout >>

\* do_GET has made its last call and returns to handle_one_request().
Return ==
   /\ srv = "handle"
   /\ hpc = "do_GET"
   /\ prog = <<>>
   /\ handled' = handled + 1
   /\ hpc' = "returned"
   /\ UNCHANGED << clientVars, sock, backlog, wire, mainVars, cur, path,
                   requestline, close_connection, hbuf, prog, stdout, errors >>

\* handle(): "while not self.close_connection: self.handle_one_request()".
\* With close_connection set the handler finishes and shutdown_request()
\* closes the connection; the serve loop selects again.
HandleLoop ==
   /\ srv = "handle"
   /\ hpc = "returned"
   /\ IF close_connection
      THEN /\ CloseSocket(cur, "closed_ok")
           /\ srv' = "serve_forever"
           /\ HandlerGone
      ELSE /\ hpc' = "readline"
           /\ UNCHANGED << sock, srv, cur, path, requestline,
                           close_connection, hbuf, prog >>
   /\ UNCHANGED << clientVars, backlog, wire, is_shut_down, shutdown_request,
                   stdout, handled, errors >>

\* ------------------------------------------------------------ __main__
\* Variant of ServeForeverFinally: the event is left unset.
ServeForeverFinally_unset ==
   /\ shutdown_request' = FALSE
   /\ is_shut_down' = is_shut_down

\* The finally clause of serve_forever(): __shutdown_request is cleared and
\* the __is_shut_down event is set.
ServeForeverFinally ==
   /\ shutdown_request' = FALSE
   /\ is_shut_down' = TRUE

\* Ctrl+C: KeyboardInterrupt is raised in the main thread, in the select of
\* serve_forever or inside the handler.  It is not an Exception: in the
\* handler, _handle_request_noblock's bare except calls shutdown_request() on
\* the connection and re-raises; serve_forever's finally clause clears
\* __shutdown_request and sets __is_shut_down; __main__ catches it.
KeyboardInterrupt ==
   /\ srv \in {"serve_forever", "handle"}
   /\ IF srv = "handle"
      THEN CloseSocket(cur, "closed_int")
      ELSE UNCHANGED sock
   /\ HandlerGone
   /\ ServeForeverFinally
   /\ srv' = "except"
   /\ UNCHANGED << clientVars, backlog, wire, stdout, handled, errors >>

\* print("\nShutting down...")
PrintShuttingDown ==
   /\ srv = "except"
   /\ stdout' = Append(stdout, "\nShutting down...")
   /\ srv' = "shutdown"
   /\ UNCHANGED << clientVars, sock, backlog, wire, is_shut_down,
                   shutdown_request, handlerVars, handled, errors >>

\* server.shutdown(): self.__shutdown_request = True, then
\* self.__is_shut_down.wait().
ShutdownCall ==
   /\ srv = "shutdown"
   /\ shutdown_request' = TRUE
   /\ srv' = "wait"
   /\ UNCHANGED << clientVars, sock, backlog, wire, is_shut_down, handlerVars,
                   stdout, handled, errors >>

\* __is_shut_down.wait() returns once the event is set; __main__ ends and the
\* process exits.
ShutdownReturn ==
   /\ srv = "wait"
   /\ is_shut_down
   /\ srv' = "exit"
   /\ UNCHANGED << clientVars, sock, backlog, wire, is_shut_down,
                   shutdown_request, handlerVars, stdout, handled, errors >>

\* ------------------------------------------------------------ specifications
ClientStep ==
   \/ \E c \in Conns : Connect(c)
   \/ \E c \in Conns, r \in ServedRequests : asked[c] = <<>> /\ Send(c, r)
   \/ \E c \in Conns : Disconnect(c)

HandlerStep ==
   \/ Accept
   \/ ParseRequest
   \/ Dispatch
   \/ SendResponse
   \/ SendHeader
   \/ EndHeaders
   \/ WfileWrite
   \/ Return
   \/ HandleLoop

FailureStep ==
   \/ EndOfFile
   \/ WriteRaises

MainStep ==
   \/ PrintShuttingDown
   \/ ShutdownCall
   \/ ShutdownReturn

Next ==
   \/ ClientStep
   \/ HandlerStep
   \/ FailureStep
   \/ KeyboardInterrupt
   \/ MainStep

\* The server with its clients, write failures and Ctrl+C.
Spec == Init /\ [][Next]_vars

\* The program's own steps are taken when they can be: the main thread runs.
\* Clients and Ctrl+C are under no obligation.
FairSpec == Spec /\ WF_vars(HandlerStep \/ FailureStep \/ MainStep)

\* One client on one connection, over every path and every request version
\* and Connection header.
NextGet ==
   \/ Connect(1)
   \/ \E r \in AllRequests : Send(1, r)
   \/ HandlerStep

SpecGet == Init /\ [][NextGet]_vars


\* ------------------------------------------------------------ what a client reads
\* The lines of the first write on a connection (empty when nothing is written).
LinesOf(w) == IF w = <<>> THEN <<>> ELSE w[1].lines

\* The status codes and the values of a header among those lines, in order.
StatusCodes(w) ==
   LET s == SelectSeq(LinesOf(w), LAMBDA l : l.kind = "status")
   IN  [i \in 1..Len(s) |-> s[i].code]

HeaderValues(w, keyword) ==
   LET s == SelectSeq(LinesOf(w), LAMBDA l : l.kind = "header" /\ l.k = keyword)
   IN  [i \in 1..Len(s) |-> s[i].v]

\* The writes that carry header lines: one per response begun.
ResponsesBegun(w) == Len(SelectSeq(w, LAMBDA ch : ch.lines # <<>>))

\* A complete response: one write of status line, headers and blank line, then
\* one write of body bytes.
IsComplete(w) ==
   /\ Len(w) = 2
   /\ w[1].lines # <<>> /\ w[1].data = <<>>
   /\ w[2].lines = <<>>

\* The value of a string of decimal digits.
RECURSIVE int(_)
int(s) ==
   IF Len(s) = 0 THEN 0
   ELSE 10 * int(SubSeq(s, 1, Len(s) - 1))
        + (CHOOSE d \in 0..9 : Digits[d + 1] = SubSeq(s, Len(s), Len(s)))

\* Requests the server has read from connection c.
NRead(c) == Len(asked[c]) - Len(rfile[c])

FirstPath(c) == asked[c][1].path

\* do_GET has returned for the request of connection c.
Responded(c) == sock[c] = "closed_ok" \/ (cur = c /\ hpc = "returned")

\* Ctrl+C has arrived.
Interrupted == srv \in {"except", "shutdown", "wait", "exit"}

\* ------------------------------------------------------------ the documented table
Routes == {"/", "/image.png", "/image.jpg", "/document.pdf", "/archive.zip"}

RouteMime(p) ==
   CASE p = "/" -> "text/html; charset=utf-8"
     [] p = "/image.png" -> "image/png"
     [] p = "/image.jpg" -> "image/jpeg"
     [] p = "/document.pdf" -> "application/pdf"
     [] p = "/archive.zip" -> "application/zip"

RoutePayload(p) ==
   CASE p = "/" -> html
     [] p = "/image.png" -> png_data
     [] p = "/image.jpg" -> jpeg_data
     [] p = "/document.pdf" -> pdf_data
     [] p = "/archive.zip" -> zip_data

\* The bytes of "404 Not Found".
NotFoundText == << 52, 48, 52, 32, 78, 111, 116, 32, 70, 111, 117, 110, 100 >>

ExpectedStatus(p) == IF p \in Routes THEN 200 ELSE 404

ExpectedMime(p) == IF p \in Routes THEN RouteMime(p) ELSE "text/plain"

ExpectedBody(p) == IF p \in Routes THEN RoutePayload(p) ELSE NotFoundText

\* What is written on connection c is the response to c's own request, as far
\* as it has been written.
OwnResponseSoFar(c) ==
   IF NRead(c) = 0 THEN wire[c] = <<>>
   ELSE /\ Len(wire[c]) <= 2
        /\ Len(wire[c]) >= 1 =>
              /\ wire[c][1].data = <<>>
              /\ StatusCodes(wire[c]) = << ExpectedStatus(FirstPath(c)) >>
              /\ HeaderValues(wire[c], "Content-Type") = << ExpectedMime(FirstPath(c)) >>
        /\ Len(wire[c]) = 2 =>
              /\ wire[c][2].lines = <<>>
              /\ wire[c][2].data = ExpectedBody(FirstPath(c))

\* ------------------------------------------------------------ C1
\* C1: a GET whose path equals a table entry is answered with status 200, the
\* entry's Content-Type, a Content-Length whose decimal value is the byte
\* length of the entry's payload, and the payload itself as the body, written
\* in a single write, byte for byte.
C1_MappedPathGets200 ==
   \A c \in Conns :
      (Responded(c) /\ FirstPath(c) \in Routes) =>
         /\ IsComplete(wire[c])
         /\ wire[c][1].lines[1].kind = "status"
         /\ StatusCodes(wire[c]) = << 200 >>
         /\ HeaderValues(wire[c], "Content-Type") = << RouteMime(FirstPath(c)) >>
         /\ Len(HeaderValues(wire[c], "Content-Length")) = 1
         /\ int(HeaderValues(wire[c], "Content-Length")[1])
               = Len(RoutePayload(FirstPath(c)))
         /\ wire[c][2].data = RoutePayload(FirstPath(c))

\* The JPEG route has been served: its header reads 160 and 160 bytes follow.
C1_Witness ==
   \E c \in Conns :
      /\ sock[c] = "closed_ok"
      /\ FirstPath(c) = "/image.jpg"
      /\ HeaderValues(wire[c], "Content-Length") = << "160" >>
      /\ Len(Bytes(wire[c])) = 160

C4_NoCrossRequestContamination ==
   \A c \in Conns :
      /\ OwnResponseSoFar(c)
      /\ Responded(c) => IsComplete(wire[c])

\* The server is halfway through one client's response while another client's
\* request for a different endpoint waits in the listen queue.
C4_Witness ==
   \E c1, c2 \in Conns :
      /\ cur = c1 /\ Len(wire[c1]) = 1
      /\ sock[c2] = "queued" /\ rfile[c2] # <<>>
      /\ FirstPath(c1) \in Routes /\ FirstPath(c2) \in Routes
      /\ FirstPath(c1) # FirstPath(c2)

\* ------------------------------------------------------------ C5
\* C5 as stated: Ctrl+C lets the request in flight finish writing its response
\* before the process exits.
C5_InFlightResponseFinishes ==
   srv = "exit" =>
      \A c \in Conns :
         (sock[c] = "closed_int" /\ NRead(c) >= 1 /\ client[c] = "open") =>
            IsComplete(wire[c])

\* C5 as amended: the serve loop is left only through Ctrl+C; from then on no
\* connection is accepted and nothing more is written; a request in flight is
\* cut short, its connection closed with what had been written and no more;
\* and shutdown() returns, so the process exits.
C5_InterruptStopsServer ==
   /\ [](is_shut_down <=> Interrupted)
   /\ [](Interrupted => (cur = 0 /\ \A c \in Conns : sock[c] # "accepted"))
   /\ [][Interrupted =>
            /\ wire' = wire
            /\ \A c \in Conns : sock'[c] # sock[c] => sock'[c] = "queued"]_vars
   /\ [][(~Interrupted /\ Interrupted') =>
            /\ wire' = wire
            /\ cur # 0 => sock'[cur] = "closed_int"]_vars
   /\ (Interrupted ~> srv = "exit")

\* The process has exited after a Ctrl+C that arrived between the write of
\* the headers and the write of the body.
C5_Witness ==
   /\ srv = "exit"
   /\ \E c \in Conns :
         /\ sock[c] = "closed_int"
         /\ client[c] = "open"
         /\ Len(wire[c]) = 1

\* ------------------------------------------------------------ C6
\* C6: a write that fails ends only its own connection: the failing step
\* closes that connection, leaves every other connection as it was and puts
\* the server back in the serve loop; and a request served after a failure
\* gets its correct, complete response.
C6_WriteFailureIsLocal ==
   /\ [][errors' > errors =>
            /\ srv' = "serve_forever"
            /\ sock'[cur] = "closed_err"
            /\ backlog' = backlog
            /\ \A c \in Conns \ {cur} : sock'[c] = sock[c] /\ wire'[c] = wire[c]]_vars
   /\ [](srv = "exit" => stdout[Len(stdout)] = "\nShutting down...")
   /\ [](\A c \in Conns :
            (errors >= 1 /\ Responded(c)) =>
               (IsComplete(wire[c]) /\ OwnResponseSoFar(c)))

\* After a failed write the server has answered a later client in full.
C6_Witness ==
   /\ errors >= 1
   /\ cur # 0 /\ hpc = "returned" /\ client[cur] = "open"
   /\ IsComplete(wire[cur])
   /\ \E c \in Conns : sock[c] = "closed_err"

\* ------------------------------------------------------------ C7
\* The log lines among the lines printed.
LogLines == SelectSeq(stdout, LAMBDA l : SubSeq(l, 1, 1) = "[")

\* The log line of a request: timestamp, request line, status code, size "-".
LogLineOf(r, code) ==
   "[" \o log_date_time_string \o "] \"" \o RequestLine(r) \o "\" " \o code \o " -"

C8_PayloadSizesAndSignatures ==
   \A c \in Conns :
      Responded(c) =>
         /\ FirstPath(c) = "/archive.zip" =>
               /\ Len(Bytes(wire[c])) = 22
               /\ SubSeq(Bytes(wire[c]), 1, 4) = << 80, 75, 5, 6 >>
               /\ HeaderValues(wire[c], "Content-Length") = << "22" >>
         /\ FirstPath(c) = "/image.png" =>
               /\ Len(Bytes(wire[c])) = 69
               /\ SubSeq(Bytes(wire[c]), 1, 8) = << 137, 80, 78, 71, 13, 10, 26, 10 >>
               /\ HeaderValues(wire[c], "Content-Length") = << "69" >>

\* Both the ZIP and the PNG have been served.
C8_Witness ==
   \E c1, c2 \in Conns :
      /\ sock[c1] = "closed_ok" /\ FirstPath(c1) = "/archive.zip"
      /\ sock[c2] = "closed_ok" /\ FirstPath(c2) = "/image.png"

\* ------------------------------------------------------------ C9
\* Where the server is: in the serve loop, at a point of the handler, or past
\* Ctrl+C.
Position == IF srv = "handle" THEN hpc ELSE srv

\* The order of the per-connection steps: accept, parse, dispatch, write,
\* close and back to the serve loop.
LifecycleOrder ==
   { << "serve_forever", "readline" >>, << "readline", "parsed" >>,
     << "parsed", "do_GET" >>, << "do_GET", "returned" >>,
     << "returned", "serve_forever" >>,
     << "readline", "serve_forever" >>, << "do_GET", "serve_forever" >>,
     << "serve_forever", "except" >>, << "readline", "except" >>,
     << "parsed", "except" >>, << "do_GET", "except" >>,
     << "returned", "except" >>, << "except", "shutdown" >>,
     << "shutdown", "wait" >>, << "wait", "exit" >> }

\* Within what is written: the status line first, then headers, then the blank
\* line, all before any body byte.
WireOrdered(w) ==
   w # <<>> =>
      /\ w[1].lines # <<>>
      /\ w[1].lines[1].kind = "status"
      /\ w[1].lines[Len(w[1].lines)].kind = "blank"
      /\ \A i \in 2..(Len(w[1].lines) - 1) : w[1].lines[i].kind = "header"
      /\ \A i \in 2..Len(w) : w[i].lines = <<>>

\* C9 as stated: every GET request the server accepts receives exactly one
\* response, never zero: once the server has closed the connection of a client
\* that is still there, the response is there, whole.
C9_EveryRequestAnswered ==
   \A c \in Conns :
      (/\ sock[c] \in {"closed_ok", "closed_err", "closed_int"}
       /\ NRead(c) >= 1
       /\ client[c] = "open") =>
         (ResponsesBegun(wire[c]) = 1 /\ IsComplete(wire[c]))

\* C9 as amended: the steps of a connection come in the stated order and the
\* status line precedes the headers, which precede the body; no request gets
\* two responses; a request read from a client that stays connected gets its
\* one complete response unless Ctrl+C arrives first; and absent Ctrl+C the
\* server is back in the serve loop after each request.
C9_RequestLifecycle ==
   /\ [][Position' # Position => << Position, Position' >> \in LifecycleOrder]_vars
   /\ [](\A c \in Conns : WireOrdered(wire[c]) /\ ResponsesBegun(wire[c]) <= 1)
   /\ [](\A c \in Conns :
            (sock[c] = "closed_ok" /\ NRead(c) >= 1) => IsComplete(wire[c]))
   /\ \A c \in Conns :
         (cur = c /\ hpc = "parsed") ~>
            (IsComplete(wire[c]) \/ Interrupted \/ client[c] = "gone")
   /\ (srv = "handle" /\ hpc = "parsed") ~> (srv = "serve_forever" \/ Interrupted)

\* A request has gone through every step: its connection is closed with one
\* complete response and the server is in the serve loop again.
C9_Witness ==
   /\ srv = "serve_forever"
   /\ \E c \in Conns :
         /\ sock[c] = "closed_ok" /\ client[c] = "open"
         /\ ResponsesBegun(wire[c]) = 1 /\ IsComplete(wire[c])

\* ------------------------------------------------------------ C10
\* C10: the handler never keeps a connection alive: once a request is parsed
\* close_connection is set, whatever version and Connection header the client
\* sent; the server reads one request per connection and writes one response
\* on it; and the 404 response carries no Content-Length, its body ending
\* where the server closes the connection.
C10_NoKeepAlive ==
   /\ hpc \in {"parsed", "do_GET", "returned"} => close_connection
   /\ \A c \in Conns :
         /\ NRead(c) <= 1
         /\ ResponsesBegun(wire[c]) <= 1
         /\ (Responded(c) /\ FirstPath(c) \notin Routes) =>
               HeaderValues(wire[c], "Content-Length") = <<>>
         /\ (sock[c] = "closed_ok" /\ FirstPath(c) \notin Routes) =>
               Bytes(wire[c]) = NotFoundText

\* A client asked for keep-alive over HTTP/1.1 and sent a second request: the
\* connection was closed after the first response, the second never read.
C10_Witness ==
   \E c \in Conns :
      /\ sock[c] = "closed_ok"
      /\ Len(asked[c]) = 2
      /\ asked[c][1] = Request("/nonexistent", "HTTP/1.1", "keep-alive")
      /\ rfile[c] = << asked[c][2] >>
      /\ ResponsesBegun(wire[c]) = 1

====
